---- MODULE Spec2Model ----
(***************************************************************************)
(* Model of the memory adapter's backends (lib/backends/forgetful.py and   *)
(* lib/backends/graphiti.py).                                              *)
(*                                                                         *)
(* One caller drives one ForgetfulBackend instance.  Every external call   *)
(* (list_projects, create_project, query_memory, create_memory,            *)
(* list_memories) is one step, and may return or raise.  The external      *)
(* service is the environment: its reference graph (links), its projects   *)
(* and its seedResult are chosen nondeterministically.  SpecConcurrent has *)
(* two callers share the instance and interleaves their steps through     *)
(* _group_to_project_id.                                                   *)
(***************************************************************************)
EXTENDS Integers, Sequences, FiniteSets, TLC

VARIABLES
    links,        \* service: memory id -> its linked_memory_ids list, for the
                  \* memories whose record the service has handed out so far
    projects,     \* service: project name -> project id
    cache,        \* ForgetfulBackend._project_cache
    pc,           \* where the caller is: idle, loop, list_projects, create_project, tool
    backend,      \* which backend the operation in progress (or last finished) ran on
    opName,       \* the public operation in progress (or last finished)
    group,        \* its group_id argument
    qtext,        \* the query text of the pending query_memory call
    limit,        \* the limit argument (k / limit of the pending call)
    depth,        \* explore: the requested depth
    queue,        \* explore: the work queue of (query_text, depth) pairs
    cur,          \* explore: the entry popped last (query_text, current_depth)
    visited,      \* explore: set of memory ids seen
    nodes,        \* explore: list of Memory
    edges,        \* explore: list of Relationship
    queries,      \* history: the (query_text, depth) of every query explore issued
    seedResult,   \* history: the memory ids the service answered the seed query with
    exact,        \* history: every identifier-shaped query of this explore call was
                  \* answered with exactly the memory of that identifier
    calls,        \* history: external calls of the operation in progress, in order
    result,       \* outcome of the operation that finished last
    createCalls,  \* history: create_project calls issued, per namespace
    listCalls,    \* history: list_projects calls issued, per namespace
    failedCalls,  \* history: failed list_projects/create_project calls, per namespace
    opsCount,     \* history: public operations started
    threads,      \* concurrent callers of _group_to_project_id: each one's position,
                  \* group_id, project_id local and last return value
    duplicates,   \* service: projects created under a name that already had one
    overlapped,   \* history: per namespace, a resolution began while another
                  \* caller was in the middle of resolving the same namespace
    obtained      \* history: per namespace, the project ids _group_to_project_id
                  \* returned to the concurrent callers

vars == <<links, projects, cache, pc, backend, opName, group, qtext, limit, depth, queue, cur,
          visited, nodes, edges, queries, seedResult, exact, calls, result, createCalls, listCalls,
          failedCalls, opsCount, threads, duplicates, overlapped, obtained>>

exploreVars == <<depth, queue, cur, visited, nodes, edges, queries, seedResult, exact>>
histVars == <<createCalls, listCalls, failedCalls>>
callerVars == <<threads, duplicates, overlapped, obtained>>

----------------------------------------------------------------------------
(* Bounds of the model *)

\* the service's memories, by native id (the fixture's root, a, b, c are 1, 2, 3, 4)
Ids == {1, 2, 3, 4}
\* total number of linked_memory_ids entries the service's graph may hold
MaxEdges == 3
\* largest depth argument of explore
MaxDepth == 2
\* longest answer the service gives to a free-text query
MaxResp == 2
\* public operations per behaviour
MaxOps == 3
\* largest limit argument of query / list_recent
MaxLimit == 2
\* created_at values of the service's records
MaxTime == 2

\* explore's fixed fan-out: self.query(query_text, group_id, 5)
Fanout == 5

Namespaces == {"fresh", "known"}
FreeText == "auth"

----------------------------------------------------------------------------
(* Values *)

\* str(x) of a native identifier
Str(i) == ToString(i)

IdTexts == {Str(i) : i \in Ids}
\* the texts a caller passes: an identifier's, or free text
Texts == {Str(1), FreeText}
IdOfText(t) == CHOOSE i \in Ids : Str(i) = t

SeqsUpTo(S, n) == UNION {[1..k -> S] : k \in 0..n}

Min(a, b) == IF a < b THEN a ELSE b

Range(s) == {s[i] : i \in 1..Len(s)}

RECURSIVE SumLens(_, _)
SumLens(f, S) ==
    IF S = {} THEN 0
    ELSE LET x == CHOOSE y \in S : TRUE IN Len(f[x]) + SumLens(f, S \ {x})

NoResult == [status |-> "none"]
Raised(tool) == [status |-> "raised", tool |-> tool]
Returned(v) == [status |-> "returned", value |-> v]

\* a record's created_at field may be absent from a payload
Missing == 0
Times == 1..MaxTime
\* datetime.now(): construction time, later than every stored timestamp
Now == MaxTime + 1

\* the service's raw record of memory i, under the reference graph l
RawMemory(l, i, t) == [id |-> i, created_at |-> t, linked_memory_ids |-> l[i]]

----------------------------------------------------------------------------
(* Pure functions of the adapter *)

\* datetime.fromisoformat(mem.get("created_at", datetime.now().isoformat()))
ParseCreatedAt(raw) == IF raw.created_at = Missing THEN Now ELSE raw.created_at

ParseForgetfulMemories(res) ==
    [k \in 1..Len(res) |->
        [id |-> Str(res[k].id),
         created_at |-> ParseCreatedAt(res[k]),
         linked_memory_ids |-> res[k].linked_memory_ids]]

ParseEpisodesToMemories(res) ==
    [k \in 1..Len(res) |->
        [id |-> res[k].uuid, created_at |-> ParseCreatedAt(res[k])]]

Relationship(memory, linked_id) ==
    [source |-> memory.id, target |-> Str(linked_id), relation_type |-> "linked_to"]

\* the relationships of one memory's linked_memory_ids, in list order
LinkedEdges(memory) ==
    [k \in 1..Len(memory.linked_memory_ids) |->
        Relationship(memory, memory.linked_memory_ids[k])]

\* search_facts: every memory's linked ids as relationships
RECURSIVE FactsOf(_)
FactsOf(memories) ==
    IF memories = <<>> THEN <<>>
    ELSE LinkedEdges(Head(memories)) \o FactsOf(Tail(memories))

\* a visited check that never fires
SeenNever(memory, vis) == FALSE

\* `if memory.id in visited: continue`
Seen(memory, vis) == memory.id \in vis

\* the depth guard off by one, either way
EnqueueOneLess(current_depth, d) == current_depth + 1 < d
EnqueueOneMore(current_depth, d) == current_depth <= d

\* `if current_depth < depth` guarding queue.append
ShouldEnqueue(current_depth, d) == current_depth < d

\* reading the head without removing it
RestKeepsHead(q) == q

\* the queue left by queue.pop(0)
Rest(q) == Tail(q)

\* the queue entries one memory adds: (str(linked_id), current_depth + 1) per link
LinkedEntries(memory, current_depth, d) ==
    IF ShouldEnqueue(current_depth, d)
    THEN [k \in 1..Len(memory.linked_memory_ids) |->
            <<Str(memory.linked_memory_ids[k]), current_depth + 1>>]
    ELSE <<>>

\* the loop body with the visited check guarding the node only: the references
\* of a memory seen before are recorded and queued again
RECURSIVE ExploreMemoriesLateCheck(_, _, _, _)
ExploreMemoriesLateCheck(st, memories, current_depth, d) ==
    IF memories = <<>> THEN st
    ELSE LET memory == Head(memories)
             nxt == [visited |-> st.visited \cup {memory.id},
                     nodes |-> IF Seen(memory, st.visited) THEN st.nodes
                               ELSE Append(st.nodes, memory),
                     edges |-> st.edges \o LinkedEdges(memory),
                     queue |-> st.queue \o LinkedEntries(memory, current_depth, d)]
         IN ExploreMemoriesLateCheck(nxt, Tail(memories), current_depth, d)

\* the body of `for memory in memories`, on the loop's state st
RECURSIVE ExploreMemories(_, _, _, _)
ExploreMemories(st, memories, current_depth, d) ==
    IF memories = <<>> THEN st
    ELSE LET memory == Head(memories)
             nxt == IF Seen(memory, st.visited) THEN st
                    ELSE [visited |-> st.visited \cup {memory.id},
                          nodes |-> Append(st.nodes, memory),
                          edges |-> st.edges \o LinkedEdges(memory),
                          queue |-> st.queue \o LinkedEntries(memory, current_depth, d)]
         IN ExploreMemories(nxt, Tail(memories), current_depth, d)

KnowledgeGraph(n, e) == [nodes |-> n, edges |-> e]

\* GraphitiBackend.OPERATIONS
OPERATIONS == {"query", "search_facts", "save", "explore", "list_recent"}
\* the operations ForgetfulBackend implements
ForgetfulOperations == {"query", "search_facts", "save", "explore", "list_recent"}
OperationArgs == OPERATIONS \cup {"bogus"}

----------------------------------------------------------------------------
(* The external service's seedResult *)

MaxOf(S) == CHOOSE x \in S : \A y \in S : y <= x

\* the largest identifier the reference graph l names
MaxId(l) == MaxOf({0} \cup DOMAIN l \cup UNION {Range(l[i]) : i \in DOMAIN l})

\* Identifiers are opaque to the adapter, which only converts them with str and
\* compares them: the service's memories are numbered in the order in which
\* its seedResult first name them.  The lists of at most n identifiers that, after
\* identifiers 1..m, name new identifiers in that order:
FreshOrdered(m, n) ==
    {s \in SeqsUpTo(Ids, n) :
        \A j \in 1..Len(s) : s[j] <= MaxOf({m} \cup {s[i] : i \in 1..(j - 1)}) + 1}

\* query_memory is a similarity search: it seedResult free text with any memories,
\* at most k of them, possibly one of them twice; it seedResult an identifier's
\* text with the memory of that identifier, with another memory or with none
QueryMatches(l, text, k) ==
    IF text \in IdTexts
    THEN FreshOrdered(MaxOf({MaxId(l), IdOfText(text)}), 1)
    ELSE FreshOrdered(MaxId(l), Min(k, MaxResp))

\* the answer that resolves an identifier-shaped query to exactly that memory
IsExact(text, s) == text \in IdTexts => s = <<IdOfText(text)>>

TotalLinks(l) == SumLens(l, DOMAIN l)

\* the reference graphs that agree with l and also hold a record for every
\* memory of S: a record's linked_memory_ids are fixed when the service first
\* hands the record out
RECURSIVE Extensions(_, _)
Extensions(l, S) ==
    IF S \subseteq DOMAIN l THEN {l}
    ELSE LET i == CHOOSE j \in S \ DOMAIN l : \A m \in S \ DOMAIN l : j <= m
         IN UNION {Extensions([n \in DOMAIN l \cup {i} |-> IF n = i THEN ids ELSE l[n]], S) :
                      ids \in FreshOrdered(MaxOf({MaxId(l)} \cup S), MaxEdges - TotalLinks(l))}


NonIncreasing(s) == \A j \in 1..(Len(s) - 1) : s[j].created_at >= s[j + 1].created_at

\* list_memories with sort_by created_at, sort_order desc, limit k
ListMemoriesResponses(k) ==
    {s \in SeqsUpTo({[id |-> 1, created_at |-> t, linked_memory_ids |-> <<>>] : t \in Times}, k) :
        NonIncreasing(s)}

\* get_episodes with max_episodes k: the request names no order
EpisodesResponses(k) ==
    SeqsUpTo({[uuid |-> "e", created_at |-> t] : t \in Times \cup {Missing}}, k)

\* create_project's payload names the new id as project_id or as id
CreateProjectResponses(n) == {[project_id |-> n], [id |-> n]}
\* create_result.get("project_id", create_result.get("id"))
CreatedProjectId(r) == IF "project_id" \in DOMAIN r THEN r.project_id ELSE r.id

\* create_memory's payload names the new id as memory_id, as id, or not at all
CreateMemoryResponses == {[memory_id |-> 9], [id |-> 9], [title |-> "t"]}
\* str(result.get("memory_id", result.get("id", "unknown")))
SavedId(r) ==
    IF "memory_id" \in DOMAIN r THEN Str(r.memory_id)
    ELSE IF "id" \in DOMAIN r THEN Str(r.id) ELSE "unknown"

NextProjectId == Cardinality(DOMAIN projects) + Cardinality(duplicates) + 1

----------------------------------------------------------------------------
(* ForgetfulBackend *)

ZeroCounters == [n \in Namespaces |-> 0]

\* a cache check that always misses
EnterResolveMiss(g) == "list_projects"

\* _group_to_project_id's cache check: a hit goes on to the tool call, a miss
\* to list_projects
EnterResolve(g) == IF g \in DOMAIN cache THEN "tool" ELSE "list_projects"

\* a cache write that is forgotten
CacheStoreNothing(c, g, project_id) == c

\* self._project_cache[group_id] = project_id
CacheStore(c, g, project_id) == [n \in DOMAIN c \cup {g} |-> IF n = g THEN project_id ELSE c[n]]

\* the external call the caller is about to make
PendingTool ==
    IF pc \in {"list_projects", "create_project"} THEN pc
    ELSE IF opName = "save" THEN "create_memory"
    ELSE IF opName = "list_recent" THEN "list_memories"
    ELSE "query_memory"

Logged(tool, ok) == Append(calls, [tool |-> tool, ok |-> ok])

Begin(name, g) ==
    /\ pc = "idle"
    /\ opsCount < MaxOps
    /\ opsCount' = opsCount + 1
    /\ backend' = "forgetful"
    /\ opName' = name
    /\ group' = g
    /\ calls' = <<>>
    /\ result' = NoResult
    /\ UNCHANGED <<links, projects, cache, histVars, callerVars>>

ResetExplore ==
    /\ depth' = 0
    /\ queue' = <<>>
    /\ cur' = <<>>
    /\ visited' = {}
    /\ nodes' = <<>>
    /\ edges' = <<>>
    /\ queries' = <<>>
    /\ seedResult' = {}
    /\ exact' = TRUE

query(text, g, k) ==
    /\ Begin("query", g)
    /\ qtext' = text
    /\ limit' = k
    /\ pc' = EnterResolve(g)
    /\ ResetExplore

search_facts(text, g, k) ==
    /\ Begin("search_facts", g)
    /\ qtext' = text
    /\ limit' = k
    /\ pc' = EnterResolve(g)
    /\ ResetExplore

save(g) ==
    /\ Begin("save", g)
    /\ qtext' = ""
    /\ limit' = 0
    /\ pc' = EnterResolve(g)
    /\ ResetExplore

list_recent(g, k) ==
    /\ Begin("list_recent", g)
    /\ qtext' = ""
    /\ limit' = k
    /\ pc' = EnterResolve(g)
    /\ ResetExplore

explore(starting_point, g, d) ==
    /\ Begin("explore", g)
    /\ qtext' = ""
    /\ limit' = 0
    /\ depth' = d
    /\ visited' = {}
    /\ nodes' = <<>>
    /\ edges' = <<>>
    /\ queue' = << <<starting_point, 0>> >>
    /\ cur' = <<>>
    /\ queries' = <<>>
    /\ seedResult' = {}
    /\ exact' = TRUE
    /\ pc' = "loop"

\* `return KnowledgeGraph(nodes=nodes, edges=edges)`
ExploreReturn ==
    /\ pc' = "idle"
    /\ result' = Returned(KnowledgeGraph(nodes, edges))
    /\ UNCHANGED <<qtext, limit, queries>>

\* one pass of `while queue:` up to the call of self.query
Loop ==
    /\ pc = "loop"
    /\ IF queue = <<>>
       THEN ExploreReturn /\ UNCHANGED <<queue, cur>>
       ELSE /\ cur' = Head(queue)
            /\ queue' = Rest(queue)
            /\ IF Head(queue)[2] > depth
               THEN ExploreReturn
               ELSE /\ qtext' = Head(queue)[1]
                    /\ limit' = Fanout
                    /\ queries' = Append(queries, Head(queue))
                    /\ pc' = EnterResolve(group)
                    /\ UNCHANGED result
    /\ UNCHANGED <<links, projects, cache, backend, opName, group, depth, visited, nodes,
                   edges, seedResult, exact, calls, histVars, opsCount, callerVars>>

\* a handler that swallows the exception: a failed resolution goes on to the
\* memory call without a project, a failed memory call ends without an error
SwallowError ==
    /\ pc' = (IF pc = "tool" THEN "idle" ELSE "tool")
    /\ result' = (IF pc = "tool" THEN Returned(<<>>) ELSE result)
    /\ UNCHANGED cache

\* an exception of the pending external call: no handler anywhere, so the
\* public operation ends with it
PropagateError ==
    /\ pc' = "idle"
    /\ result' = Raised(PendingTool)
    /\ UNCHANGED cache

call_raises ==
    /\ pc \in {"list_projects", "create_project", "tool"}
    /\ calls' = Logged(PendingTool, FALSE)
    /\ PropagateError
    /\ listCalls' = IF pc = "list_projects"
                    THEN [listCalls EXCEPT ![group] = @ + 1] ELSE listCalls
    /\ createCalls' = IF pc = "create_project"
                      THEN [createCalls EXCEPT ![group] = @ + 1] ELSE createCalls
    /\ failedCalls' = IF pc \in {"list_projects", "create_project"}
                      THEN [failedCalls EXCEPT ![group] = @ + 1] ELSE failedCalls
    /\ UNCHANGED <<links, projects, backend, opName, group, qtext, limit, exploreVars,
                   opsCount, callerVars>>

\* list_projects returns: match by name, else go on to create
list_projects_returns ==
    /\ pc = "list_projects"
    /\ calls' = Logged("list_projects", TRUE)
    /\ listCalls' = [listCalls EXCEPT ![group] = @ + 1]
    /\ IF group \in DOMAIN projects
       THEN /\ cache' = CacheStore(cache, group, projects[group])
            /\ pc' = "tool"
       ELSE /\ cache' = cache
            /\ pc' = "create_project"
    /\ UNCHANGED <<links, projects, backend, opName, group, qtext, limit, exploreVars,
                   result, createCalls, failedCalls, opsCount, callerVars>>

create_project_returns ==
    /\ pc = "create_project"
    /\ \E r \in CreateProjectResponses(NextProjectId) :
          /\ projects' = [n \in DOMAIN projects \cup {group} |->
                              IF n = group THEN NextProjectId ELSE projects[n]]
          /\ cache' = CacheStore(cache, group, CreatedProjectId(r))
    /\ calls' = Logged("create_project", TRUE)
    /\ createCalls' = [createCalls EXCEPT ![group] = @ + 1]
    /\ pc' = "tool"
    /\ UNCHANGED <<links, backend, opName, group, qtext, limit, exploreVars, result,
                   listCalls, failedCalls, opsCount, callerVars>>

query_memory_returns ==
    /\ pc = "tool"
    /\ opName \in {"query", "search_facts", "explore"}
    /\ calls' = Logged("query_memory", TRUE)
    /\ \E s \in QueryMatches(links, qtext, limit) : \E l \in Extensions(links, Range(s)) :
          LET res == [j \in 1..Len(s) |-> RawMemory(l, s[j], 1)]
              memories == ParseForgetfulMemories(res)
          IN
          /\ links' = l
          /\ IF opName = "explore"
             THEN LET st == ExploreMemories(
                               [visited |-> visited, nodes |-> nodes, edges |-> edges,
                                queue |-> queue],
                               memories, cur[2], depth)
                  IN /\ visited' = st.visited
                     /\ nodes' = st.nodes
                     /\ edges' = st.edges
                     /\ queue' = st.queue
                     /\ seedResult' = (IF Len(queries) = 1 THEN Range(s) ELSE seedResult)
                     /\ exact' = (exact /\ IsExact(qtext, s))
                     /\ pc' = "loop"
                     /\ UNCHANGED <<result, depth, cur, queries>>
             ELSE /\ pc' = "idle"
                  /\ result' = Returned(IF opName = "query" THEN memories
                                                            ELSE FactsOf(memories))
                  /\ UNCHANGED exploreVars
    /\ UNCHANGED <<projects, cache, backend, opName, group, qtext, limit, histVars,
                   opsCount, callerVars>>

create_memory_returns ==
    /\ pc = "tool"
    /\ opName = "save"
    /\ calls' = Logged("create_memory", TRUE)
    /\ \E r \in CreateMemoryResponses : result' = Returned(SavedId(r))
    /\ pc' = "idle"
    /\ UNCHANGED <<links, projects, cache, backend, opName, group, qtext, limit,
                   exploreVars, histVars, opsCount, callerVars>>

list_memories_returns ==
    /\ pc = "tool"
    /\ opName = "list_recent"
    /\ calls' = Logged("list_memories", TRUE)
    /\ \E res \in ListMemoriesResponses(limit) :
          result' = Returned(ParseForgetfulMemories(res))
    /\ pc' = "idle"
    /\ UNCHANGED <<links, projects, cache, backend, opName, group, qtext, limit,
                   exploreVars, histVars, opsCount, callerVars>>

\* an operation that makes no external call and touches no state of the backend
Pure(b, name, arg, res) ==
    /\ pc = "idle"
    /\ opsCount < MaxOps
    /\ opsCount' = opsCount + 1
    /\ backend' = b
    /\ opName' = name
    /\ qtext' = arg
    /\ calls' = <<>>
    /\ result' = res
    /\ pc' = "idle"
    /\ limit' = 0
    /\ ResetExplore
    /\ UNCHANGED <<links, projects, cache, group, histVars, callerVars>>

ForgetfulSchema(operation) == Returned("schema")
ForgetfulExamples(operation) == Returned("examples")

forgetful_get_schema(operation) ==
    /\ Pure("forgetful", "get_schema", operation, ForgetfulSchema(operation))

forgetful_get_examples(operation) ==
    /\ Pure("forgetful", "get_examples", operation, ForgetfulExamples(operation))

----------------------------------------------------------------------------
(* GraphitiBackend *)

GraphitiSchema(operation) ==
    IF operation \notin OPERATIONS THEN Raised("ValueError") ELSE Returned("schema")

GraphitiExamples(operation) ==
    IF operation \notin OPERATIONS THEN Raised("ValueError") ELSE Returned("examples")

graphiti_get_schema(operation) ==
    /\ Pure("graphiti", "get_schema", operation, GraphitiSchema(operation))

graphiti_get_examples(operation) ==
    /\ Pure("graphiti", "get_examples", operation, GraphitiExamples(operation))

\* list_recent: one get_episodes call, parsed in the order received
graphiti_list_recent(g, k) ==
    /\ pc = "idle"
    /\ opsCount < MaxOps
    /\ opsCount' = opsCount + 1
    /\ backend' = "graphiti"
    /\ opName' = "list_recent"
    /\ group' = g
    /\ qtext' = ""
    /\ limit' = k
    /\ \E ok \in BOOLEAN :
          /\ calls' = <<[tool |-> "get_episodes", ok |-> ok]>>
          /\ IF ok
             THEN \E res \in EpisodesResponses(k) :
                     result' = Returned(ParseEpisodesToMemories(res))
             ELSE result' = Raised("get_episodes")
    /\ pc' = "idle"
    /\ ResetExplore
    /\ UNCHANGED <<links, projects, cache, histVars, callerVars>>

----------------------------------------------------------------------------
(* _group_to_project_id under concurrent callers *)

\* two callers sharing one ForgetfulBackend instance
Callers == {"a", "b"}

\* a caller outside _group_to_project_id; returned is the value it got last
IdleThread == [pc |-> "idle", group_id |-> "", project_id |-> Missing, returned |-> Missing]

\* the steps of the other variables that a concurrent resolution leaves alone
resolveFrame == <<links, pc, backend, opName, group, qtext, limit, exploreVars, calls, result>>

\* caller c is between the cache check and the return of a resolution of g
Resolving(c, g) == threads[c].pc # "idle" /\ threads[c].group_id = g

\* `return project_id`
ResolveReturn(c, g, project_id) ==
    /\ threads' = [threads EXCEPT ![c] = [IdleThread EXCEPT !.returned = project_id]]
    /\ obtained' = [obtained EXCEPT ![g] = @ \cup {project_id}]

\* caller c enters _group_to_project_id(g) and checks the cache: a hit returns
\* the cached id at once, a miss goes on to list_projects
group_to_project_id(c, g) ==
    /\ threads[c].pc = "idle"
    /\ opsCount < MaxOps
    /\ opsCount' = opsCount + 1
    /\ overlapped' = [overlapped EXCEPT
                         ![g] = @ \/ \E o \in Callers \ {c} : Resolving(o, g)]
    /\ IF EnterResolve(g) = "tool"
       THEN ResolveReturn(c, g, cache[g])
       ELSE /\ threads' = [threads EXCEPT
                              ![c] = [@ EXCEPT !.pc = "list_projects", !.group_id = g]]
            /\ UNCHANGED obtained
    /\ UNCHANGED <<resolveFrame, projects, cache, histVars, duplicates>>

\* list_projects returns to caller c: the first project of that name, if any
resolve_list_projects_returns(c) ==
    /\ threads[c].pc = "list_projects"
    /\ LET g == threads[c].group_id
       IN /\ listCalls' = [listCalls EXCEPT ![g] = @ + 1]
          /\ threads' = [threads EXCEPT ![c] =
                            IF g \in DOMAIN projects
                            THEN [@ EXCEPT !.pc = "store", !.project_id = projects[g]]
                            ELSE [@ EXCEPT !.pc = "create_project"]]
    /\ UNCHANGED <<resolveFrame, projects, cache, createCalls, failedCalls, opsCount,
                   duplicates, overlapped, obtained>>

\* create_project returns to caller c: the service makes a new project, a
\* second one of that name when another caller created one in the meantime
resolve_create_project_returns(c) ==
    /\ threads[c].pc = "create_project"
    /\ LET g == threads[c].group_id
       IN /\ createCalls' = [createCalls EXCEPT ![g] = @ + 1]
          /\ IF g \in DOMAIN projects
             THEN /\ duplicates' = duplicates \cup {[name |-> g, id |-> NextProjectId]}
                  /\ UNCHANGED projects
             ELSE /\ projects' = [n \in DOMAIN projects \cup {g} |->
                                     IF n = g THEN NextProjectId ELSE projects[n]]
                  /\ UNCHANGED duplicates
          /\ \E r \in CreateProjectResponses(NextProjectId) :
                threads' = [threads EXCEPT ![c] =
                               [@ EXCEPT !.pc = "store", !.project_id = CreatedProjectId(r)]]
    /\ UNCHANGED <<resolveFrame, cache, listCalls, failedCalls, opsCount, overlapped,
                   obtained>>

\* `self._project_cache[group_id] = project_id; return project_id`
resolve_store(c) ==
    /\ threads[c].pc = "store"
    /\ cache' = CacheStore(cache, threads[c].group_id, threads[c].project_id)
    /\ ResolveReturn(c, threads[c].group_id, threads[c].project_id)
    /\ UNCHANGED <<resolveFrame, projects, histVars, opsCount, duplicates, overlapped>>

\* list_projects or create_project raises in caller c: the exception leaves
\* _group_to_project_id, nothing is cached
resolve_raises(c) ==
    /\ threads[c].pc \in {"list_projects", "create_project"}
    /\ LET g == threads[c].group_id
       IN /\ listCalls' = IF threads[c].pc = "list_projects"
                          THEN [listCalls EXCEPT ![g] = @ + 1] ELSE listCalls
          /\ createCalls' = IF threads[c].pc = "create_project"
                            THEN [createCalls EXCEPT ![g] = @ + 1] ELSE createCalls
          /\ failedCalls' = [failedCalls EXCEPT ![g] = @ + 1]
    /\ threads' = [threads EXCEPT ![c] = [IdleThread EXCEPT !.returned = threads[c].returned]]
    /\ UNCHANGED <<resolveFrame, projects, cache, opsCount, duplicates, overlapped,
                   obtained>>

----------------------------------------------------------------------------
(* Specifications *)

\* A references B and B references A
CycleLinks == [i \in Ids |-> IF i = 1 THEN <<2>> ELSE IF i = 2 THEN <<1>> ELSE <<>>]

InitBackend ==
    /\ projects = [n \in {"known"} |-> 1]
    /\ cache = <<>>
    /\ pc = "idle"
    /\ backend = "forgetful"
    /\ opName = ""
    /\ group = ""
    /\ qtext = ""
    /\ limit = 0
    /\ depth = 0
    /\ queue = <<>>
    /\ cur = <<>>
    /\ visited = {}
    /\ nodes = <<>>
    /\ edges = <<>>
    /\ queries = <<>>
    /\ seedResult = {}
    /\ exact = TRUE
    /\ calls = <<>>
    /\ result = NoResult
    /\ createCalls = ZeroCounters
    /\ listCalls = ZeroCounters
    /\ failedCalls = ZeroCounters
    /\ opsCount = 0
    /\ threads = [c \in Callers |-> IdleThread]
    /\ duplicates = {}
    /\ overlapped = [n \in Namespaces |-> FALSE]
    /\ obtained = [n \in Namespaces |-> {}]

Init ==
    /\ links = CycleLinks
    /\ InitBackend

Step ==
    \/ Loop
    \/ call_raises
    \/ list_projects_returns
    \/ create_project_returns
    \/ query_memory_returns
    \/ create_memory_returns
    \/ list_memories_returns

Next ==
    \/ \E t \in Texts, g \in Namespaces, k \in 1..MaxLimit : query(t, g, k)
    \/ \E t \in Texts, g \in Namespaces, k \in 1..MaxLimit : search_facts(t, g, k)
    \/ \E g \in Namespaces : save(g)
    \/ \E g \in Namespaces, k \in 1..MaxLimit : list_recent(g, k)
    \/ \E t \in Texts, g \in Namespaces, d \in 0..MaxDepth : explore(t, g, d)
    \/ Step

\* one caller, one ForgetfulBackend instance, every operation that reaches the service
Spec == Init /\ [][Next]_vars

ContractStep ==
    \/ call_raises
    \/ list_projects_returns
    \/ create_project_returns
    \/ list_memories_returns

NextContract ==
    \/ \E g \in Namespaces, k \in 1..MaxLimit : list_recent(g, k)
    \/ \E g \in Namespaces, k \in 1..MaxLimit : graphiti_list_recent(g, k)
    \/ \E o \in OperationArgs : forgetful_get_schema(o)
    \/ \E o \in OperationArgs : forgetful_get_examples(o)
    \/ \E o \in OperationArgs : graphiti_get_schema(o)
    \/ \E o \in OperationArgs : graphiti_get_examples(o)
    \/ ContractStep

\* the operations of the capability contract whose result both backends must
\* shape alike: list_recent and the discovery operations, on either backend
SpecContract == Init /\ [][NextContract]_vars

\* explore alone, over every reference graph of at most MaxEdges links: the
\* service has handed out no record yet
InitExplore ==
    /\ links = <<>>
    /\ InitBackend

ExploreStep ==
    \/ Loop
    \/ call_raises
    \/ list_projects_returns
    \/ query_memory_returns

NextExplore ==
    \/ \E t \in Texts, d \in 0..MaxDepth : opsCount = 0 /\ explore(t, "known", d)
    \/ ExploreStep

SpecExplore == InitExplore /\ [][NextExplore]_vars

\* the caller is sequential: a started operation runs on to its end
FairExplore == SpecExplore /\ WF_vars(ExploreStep)

NextConcurrent ==
    \/ \E c \in Callers, g \in Namespaces : group_to_project_id(c, g)
    \/ \E c \in Callers : resolve_list_projects_returns(c)
    \/ \E c \in Callers : resolve_create_project_returns(c)
    \/ \E c \in Callers : resolve_store(c)
    \/ \E c \in Callers : resolve_raises(c)

\* two callers of one ForgetfulBackend instance resolve namespaces, their
\* steps interleaved in every order: the code takes no lock
SpecConcurrent == InitExplore /\ [][NextConcurrent]_vars


----------------------------------------------------------------------------
(* Properties of explore *)

ExploreReturned == opName = "explore" /\ pc = "idle" /\ result.status = "returned"

NodeIds(n) == {n[i].id : i \in 1..Len(n)}
Distinct(n) == \A i, j \in 1..Len(n) : i # j => n[i].id # n[j].id

\* the memories within d reference hops of the memories S, in the graph l
RECURSIVE ReachWithin(_, _, _)
ReachWithin(l, S, d) ==
    IF d = 0 THEN S
    ELSE ReachWithin(l, S \cup UNION {Range(l[i]) : i \in S \cap DOMAIN l}, d - 1)

\* C1: throughout an explore call, in every reference graph and under every
\* answer of the service, no two memories of nodes share an id and visited is
\* exactly the set of ids of nodes; the returned graph's nodes are those.
C1_NoDuplicateNodes ==
    /\ Distinct(nodes)
    /\ visited = NodeIds(nodes)
    /\ ExploreReturned => result.value.nodes = nodes

\* C1's case: memory 1 references 2 and 3, memory 2 references 3; the second
\* query for 3 is answered with the visited memory 3 and adds no node.
C1_Witness ==
    /\ ExploreReturned
    /\ exact
    /\ Len(queries) = 4
    /\ queries[3][1] = queries[4][1]
    /\ Len(result.value.nodes) = 3

\* C2: an explore call ends.  Until it has ended it can always take its next
\* step, and every step lowers a measure that never falls below zero: the
\* queue's length plus the references not yet recorded as edges, then the
\* position within one pass of the loop.  So the queue empties after finitely
\* many steps, in cyclic graphs too, and the call returns the graph (or ends
\* with the error of a call that raised).  It returns with an empty queue, and
\* on the cycle 1 -> 2 -> 1 with identifier queries answered exactly and
\* depth >= 2 it returns exactly 2 nodes.
C2_CycleLinks == {1, 2} \subseteq DOMAIN links /\ links[1] = <<2>> /\ links[2] = <<1>>

C2_Phase ==
    CASE pc = "idle" -> 0
      [] pc = "loop" -> 1
      [] pc = "tool" -> 2
      [] pc = "create_project" -> 3
      [] pc = "list_projects" -> 4

C2_Measure == 5 * (Len(queue) + MaxEdges - Len(edges)) + C2_Phase

C2_Safe ==
    /\ C2_Measure >= 0
    /\ pc # "idle" => ENABLED ExploreStep
    /\ (pc = "idle" /\ opName = "explore") => result.status \in {"returned", "raised"}
    /\ ExploreReturned => queue = <<>>
    /\ (ExploreReturned /\ exact /\ depth >= 2 /\ seedResult = {1} /\ C2_CycleLinks)
          => Len(result.value.nodes) = 2

C2_Terminates ==
    /\ []C2_Safe
    /\ [][pc # "idle" => C2_Measure' < C2_Measure]_vars
    /\ [][(pc # "idle" /\ pc' = "idle" /\ result'.status = "raised") =>
            (calls' # <<>> /\ ~calls'[Len(calls')].ok)]_vars

\* The same, as a liveness property of the sequential caller (FairExplore).
C2_EventuallyEnds ==
    (pc # "idle") ~> (pc = "idle" /\ result.status \in {"returned", "raised"})

\* C2's case: the cycle explored to depth 2 has returned, after re-querying 1.
C2_Witness ==
    /\ ExploreReturned
    /\ exact
    /\ depth = 2
    /\ seedResult = {1}
    /\ C2_CycleLinks
    /\ Len(queries) = 3
    /\ Len(result.value.nodes) = 2

\* C3: when every identifier query was answered with exactly that memory, the
\* returned nodes are exactly the memories within depth hops of the seed's
\* result and the returned edges exactly the linked_to references of those
\* nodes; on the fixture 1 -> {2, 3}, 2 -> {4}, 3 -> {} at depth 2 the graph is
\* the nodes 1, 2, 3, 4 and the edges 1->2, 1->3, 2->4.
C3_Closure == ReachWithin(links, seedResult, depth)

C3_Fixture ==
    /\ DOMAIN links = {1, 2, 3, 4}
    /\ links[1] = <<2, 3>>
    /\ links[2] = <<4>>
    /\ links[3] = <<>>
    /\ links[4] = <<>>
    /\ seedResult = {1}
    /\ depth = 2

C3_BreadthFirstClosure ==
    (ExploreReturned /\ exact) =>
        /\ NodeIds(result.value.nodes) = {Str(i) : i \in C3_Closure}
        /\ Range(result.value.edges) =
              UNION {{[source |-> Str(i), target |-> Str(links[i][k]),
                       relation_type |-> "linked_to"] : k \in 1..Len(links[i])} :
                     i \in C3_Closure}
        /\ C3_Fixture =>
              /\ [i \in 1..Len(nodes) |-> result.value.nodes[i].id] = <<"1", "2", "3", "4">>
              /\ [i \in 1..Len(edges) |->
                    <<result.value.edges[i].source, result.value.edges[i].target>>]
                  = << <<"1", "2">>, <<"1", "3">>, <<"2", "4">> >>

\* C3's case: the fixture explored to depth 2 has returned.
C3_Witness == ExploreReturned /\ exact /\ C3_Fixture /\ Len(result.value.nodes) = 4

ExploreQueryPending ==
    opName = "explore" /\ pc \in {"list_projects", "create_project", "tool"}

\* the (str(linked_id) of the) references of the nodes n, in order
RECURSIVE AllLinkedEdges(_)
AllLinkedEdges(n) ==
    IF n = <<>> THEN <<>> ELSE LinkedEdges(Head(n)) \o AllLinkedEdges(Tail(n))

\* C4: explore never expands past the requested depth.  Every queue entry,
\* the entry popped last and every query issued carry a depth in 0..depth;
\* every reference of every node is recorded as an edge, those of nodes found
\* at the requested depth too, which are not enqueued.  With depth = 0 the
\* seed query is the only query, the nodes are exactly its distinct results and
\* every edge starts at one of them.
C4_DepthBounded ==
    /\ \A i \in 1..Len(queue) : queue[i][2] \in 0..depth
    /\ \A i \in 1..Len(queries) : queries[i][2] \in 0..depth
    /\ cur # <<>> => cur[2] \in 0..depth
    /\ edges = AllLinkedEdges(nodes)
    /\ (opName = "explore" /\ pc = "loop" /\ cur # <<>> /\ cur[2] = depth) =>
          \A i \in 1..Len(queue) : queue[i][2] = depth
    /\ (opName = "explore" /\ depth = 0) =>
          /\ Len(queries) <= 1
          /\ queue = <<>> \/ queries = <<>>
          /\ NodeIds(nodes) = {Str(i) : i \in seedResult}
          /\ \A i \in 1..Len(edges) : edges[i].source \in {Str(j) : j \in seedResult}
          /\ ExploreReturned =>
                /\ Len(queries) = 1
                /\ result.value = KnowledgeGraph(nodes, edges)

\* C4's case: explore at depth 0 has returned two nodes and their references,
\* which it recorded as edges and did not follow.
C4_Witness ==
    /\ ExploreReturned
    /\ depth = 0
    /\ Len(queries) = 1
    /\ Len(result.value.nodes) = 2
    /\ Len(result.value.edges) = MaxEdges

\* C9 as claimed: explore issues no query whose text is the id of a memory
\* already in visited.
C9_NeverRequeried == ExploreQueryPending => qtext \notin visited

\* the nodes that one answer added
C9_Added == SubSeq(nodes', Len(nodes) + 1, Len(nodes'))

\* C9 as amended: a visited memory is never added or expanded again.  A query
\* for a visited id may be issued, but whatever an answer adds comes from
\* memories not in visited before: the added nodes are new and distinct, the
\* added edges are exactly their references and the added queue entries exactly
\* their references one level down (none at the requested depth).
C9_VisitedNeverExpandedAgain ==
    [][(opName = "explore" /\ pc = "tool" /\ pc' = "loop") =>
          /\ Len(nodes') >= Len(nodes)
          /\ SubSeq(nodes', 1, Len(nodes)) = nodes
          /\ Distinct(C9_Added)
          /\ NodeIds(C9_Added) \cap visited = {}
          /\ visited' = visited \cup NodeIds(C9_Added)
          /\ edges' = edges \o AllLinkedEdges(C9_Added)
          /\ Len(queue') = Len(queue) +
                (IF cur[2] < depth THEN Len(AllLinkedEdges(C9_Added)) ELSE 0)
          /\ (qtext \in visited /\ exact') =>
                UNCHANGED <<visited, nodes, edges, queue>>]_vars

\* C9's case: on the cycle 1 -> 2 -> 1 the third query asks for 1 again, and
\* its answer, the visited memory 1, has been processed.
C9_Witness ==
    /\ opName = "explore"
    /\ pc = "loop"
    /\ exact
    /\ C2_CycleLinks
    /\ Len(queries) = 3
    /\ queries[3][1] = queries[1][1]
    /\ queue = <<>>
    /\ Len(nodes) = 2

----------------------------------------------------------------------------
(* Properties of namespace resolution and of failures *)

\* C5 as claimed: for the namespace "fresh", neither cached nor a project of
\* the service at the start, the operations of one backend instance issue one
\* create_project call in total, and only the first of them issues
\* list_projects or create_project.
C5_ExactlyOneCreate ==
    /\ createCalls["fresh"] <= 1
    /\ listCalls["fresh"] <= 1
    /\ "fresh" \in DOMAIN cache => createCalls["fresh"] = 1

\* C5 as amended: once one operation has resolved "fresh", every later step
\* finds it in the cache with the same project id and issues neither
\* list_projects nor create_project for it; create_project and list_projects
\* are issued once each when none of these calls fails, and at most once more
\* for every one that failed.
C5_Resolved == "fresh" \in DOMAIN cache

C5_OneCreatePerResolution ==
    /\ [](/\ createCalls["fresh"] <= 1 + failedCalls["fresh"]
          /\ listCalls["fresh"] <= 1 + failedCalls["fresh"]
          /\ createCalls["fresh"] <= listCalls["fresh"]
          /\ C5_Resolved =>
                /\ createCalls["fresh"] >= 1
                /\ "fresh" \in DOMAIN projects
                /\ cache["fresh"] = projects["fresh"]
          /\ (pc = "tool" /\ group = "fresh") => C5_Resolved)
    /\ [][C5_Resolved =>
            /\ "fresh" \in DOMAIN cache'
            /\ cache'["fresh"] = cache["fresh"]
            /\ listCalls'["fresh"] = listCalls["fresh"]
            /\ createCalls'["fresh"] = createCalls["fresh"]]_vars

\* C5's case: after the operation that created the project, a later operation
\* on "fresh" has returned having made its memory call only.
C5_Witness ==
    /\ group = "fresh"
    /\ pc = "idle"
    /\ result.status = "returned"
    /\ opsCount >= 2
    /\ Len(calls) = 1
    /\ createCalls["fresh"] = 1
    /\ listCalls["fresh"] = 1
    /\ failedCalls["fresh"] = 0

C8_LastCall == calls'[Len(calls')]

\* C8: a failed external call is surfaced after one attempt.  The step in
\* which a call fails leaves the cache and the service's projects as they
\* were and ends the operation with that call's error; a failed call is
\* therefore the last call of its operation, and the memory call is made only
\* with the namespace resolved; a namespace whose resolution failed is not
\* cached, so the next operation on it lists the projects again.
C8_FailureSurfaced ==
    /\ [][(calls' # calls /\ calls' # <<>> /\ ~C8_LastCall.ok) =>
            /\ cache' = cache
            /\ projects' = projects
            /\ pc' = "idle"
            /\ result' = Raised(C8_LastCall.tool)
            /\ Len(calls') = Len(calls) + 1]_vars
    /\ [](/\ \A i \in 1..(Len(calls) - 1) : calls[i].ok
          /\ (calls # <<>> /\ ~calls[Len(calls)].ok) =>
                /\ pc = "idle"
                /\ result = Raised(calls[Len(calls)].tool)
                /\ calls[Len(calls)].tool \in {"list_projects", "create_project"}
                      => group \notin DOMAIN cache
          /\ result.status = "raised" => (calls # <<>> /\ ~calls[Len(calls)].ok)
          /\ pc = "tool" => group \in DOMAIN cache
          /\ pc \in {"list_projects", "create_project"} => group \notin DOMAIN cache)

\* C8's case: create_project failed for "fresh", and a later operation on
\* "fresh" is listing the projects again.
C8_Witness ==
    /\ pc = "list_projects"
    /\ group = "fresh"
    /\ createCalls["fresh"] = 1
    /\ failedCalls["fresh"] = 1
    /\ listCalls["fresh"] = 1

----------------------------------------------------------------------------
(* Properties of the capability contract *)

Recognized(b) == IF b = "graphiti" THEN OPERATIONS ELSE ForgetfulOperations

\* C6 as claimed: on either backend get_schema and get_examples raise for an
\* operation name the backend does not recognize, and return only for a
\* recognized one.
C6_UnknownOperationFails ==
    (opName \in {"get_schema", "get_examples"} /\ result.status # "none") =>
        (result.status = "raised" <=> qtext \notin Recognized(backend))

\* C7 as claimed: on either backend list_recent(namespace, N) returns at most
\* N memories, created_at non-increasing from first to last.
C7_NewestFirst ==
    (opName = "list_recent" /\ pc = "idle" /\ result.status = "returned") =>
        /\ Len(result.value) <= limit
        /\ NonIncreasing(result.value)

\* C10 as claimed: the returned graph holds no two edges with the same
\* source, target and relation_type.
C10_NoDuplicateEdges ==
    ExploreReturned =>
        \A i, j \in 1..Len(result.value.edges) :
            i # j => result.value.edges[i] # result.value.edges[j]

----------------------------------------------------------------------------
(* Properties of concurrent namespace resolution *)

\* C11 as claimed: when two callers interleave _group_to_project_id for the
\* never-before-seen namespace "fresh" and no call fails, at most one
\* create_project call is issued and the callers obtain the same project id.
C11_AtomicResolution ==
    failedCalls["fresh"] = 0 =>
        /\ createCalls["fresh"] <= 1
        /\ Cardinality(obtained["fresh"]) <= 1

\* every id the service has given a project of the name n
C11_ProjectIds(n) ==
    (IF n \in DOMAIN projects THEN {projects[n]} ELSE {}) \cup
    {d.id : d \in {e \in duplicates : e.name = n}}

\* C11 as amended: resolution is not atomic.  When the resolutions of a
\* namespace never overlap and no call fails, list_projects and create_project
\* are issued at most once for it and every resolution returns the same id,
\* the cached one.  When they interleave, every caller that missed the cache
\* before the first cache write lists the projects and may create a project
\* of its own: at most one create_project per caller, and the callers may
\* obtain different ids, each the id of a project of that name.  In either
\* case a resolution that begins with the namespace cached returns at once,
\* without an external call.
C11_SerializedResolution ==
    /\ [](\A n \in Namespaces :
            /\ (failedCalls[n] = 0 /\ ~overlapped[n]) =>
                  /\ listCalls[n] <= 1
                  /\ createCalls[n] <= 1
                  /\ Cardinality(obtained[n]) <= 1
            /\ failedCalls[n] = 0 =>
                  /\ createCalls[n] <= Cardinality(Callers)
                  /\ listCalls[n] <= Cardinality(Callers)
            /\ createCalls[n] <= listCalls[n]
            /\ obtained[n] \subseteq C11_ProjectIds(n)
            /\ n \in DOMAIN cache => cache[n] \in obtained[n])
    /\ [][\A c \in Callers, n \in Namespaces :
            (n \in DOMAIN cache /\ Resolving(c, n)') => Resolving(c, n)]_vars

\* C11's case: both callers resolved "fresh" one after the other without a
\* failure; one project was created and both hold its id.
C11_Witness ==
    /\ ~overlapped["fresh"]
    /\ failedCalls["fresh"] = 0
    /\ createCalls["fresh"] = 1
    /\ listCalls["fresh"] = 1
    /\ "fresh" \in DOMAIN cache
    /\ \A c \in Callers : threads[c].pc = "idle" /\ threads[c].returned = cache["fresh"]

====
